---- MODULE Spec2Model ----
(***************************************************************************)
(* Model of update_wordle.js, the daily Wordle word list updater.          *)
(*                                                                         *)
(* Strings are sequences of character codes (10 = newline, 32 = space,     *)
(* 65..90 = A..Z, 97..122 = a..z), so that trim, toUpperCase, split, join  *)
(* and sort are computed the way the JavaScript computes them.             *)
(* Time is in whole hours since 1970-01-01T00:00Z; a calendar date is the  *)
(* number of whole days since 1970-01-01.                                  *)
(***************************************************************************)
EXTENDS Integers, Sequences, FiniteSets, TLC

(* ---------------- bounds of the model ---------------- *)
MaxRuns == 2
MaxBundles == 2

(* ---------------- program constants ---------------- *)
\* EPOCH = 2021-06-19T00:00:00Z, in hours since 1970 (18797 days * 24)
EPOCH == 451128
\* 14 * 60 * 60 * 1000 ms
UtcPlus14Offset == 14
\* 24 * 60 * 60 * 1000 ms
DayLength == 24
\* if (depth > 5) reject 'Too many redirects'
MaxRedirectDepth == 5
\* if (res.statusCode >= 500) reject
ServerErrorStatus == 500

(* ---------------- words used as inputs ---------------- *)
cigar == <<99, 105, 103, 97, 114>>
house == <<104, 111, 117, 115, 101>>
crane == <<99, 114, 97, 110, 101>>
trace == <<116, 114, 97, 99, 101>>
apple == <<97, 112, 112, 108, 101>>
mango == <<109, 97, 110, 103, 111>>
aalii == <<97, 97, 108, 105, 105>>
APPLE == <<65, 80, 80, 76, 69>>
CRANE == <<67, 82, 65, 78, 69>>
HOUSE == <<72, 79, 85, 83, 69>>
MANGO == <<77, 65, 78, 71, 79>>
TRACE == <<84, 82, 65, 67, 69>>
NL == <<10>>
SP == <<32>>

(* ---------------- JavaScript string functions ---------------- *)
IsSpace(c) == c \in {9, 10, 13, 32}

RECURSIVE TrimStart(_)
TrimStart(s) ==
    IF s = <<>> THEN <<>>
    ELSE IF IsSpace(Head(s)) THEN TrimStart(Tail(s)) ELSE s

RECURSIVE TrimEnd(_)
TrimEnd(s) ==
    IF s = <<>> THEN <<>>
    ELSE IF IsSpace(s[Len(s)]) THEN TrimEnd(SubSeq(s, 1, Len(s) - 1)) ELSE s

\* String.prototype.trim
Trim(s) == TrimEnd(TrimStart(s))

UpperChar(c) == IF c >= 97 /\ c <= 122 THEN c - 32 ELSE c

ToUpperCaseFirstOnly(s) ==
    [i \in 1..Len(s) |-> IF i = 1 THEN UpperChar(s[i]) ELSE s[i]]

\* String.prototype.toUpperCase
ToUpperCase(s) == [i \in 1..Len(s) |-> UpperChar(s[i])]

\* s.split('\n'): the pieces between newlines; ''.split('\n') is ['']
RECURSIVE SplitLines(_, _)
SplitLines(s, cur) ==
    IF s = <<>> THEN <<cur>>
    ELSE IF Head(s) = 10 THEN <<cur>> \o SplitLines(Tail(s), <<>>)
    ELSE SplitLines(Tail(s), Append(cur, Head(s)))

Split(s) == SplitLines(s, <<>>)

\* lines.join('\n')
RECURSIVE Join(_)
Join(lines) ==
    IF lines = <<>> THEN <<>>
    ELSE IF Len(lines) = 1 THEN lines[1]
    ELSE lines[1] \o NL \o Join(Tail(lines))

\* a < b in the order Array.prototype.sort uses for strings (code units)
RECURSIVE LexLess(_, _)
LexLess(a, b) ==
    IF b = <<>> THEN FALSE
    ELSE IF a = <<>> THEN TRUE
    ELSE IF Head(a) # Head(b) THEN Head(a) < Head(b)
    ELSE LexLess(Tail(a), Tail(b))

RECURSIVE InsertSorted(_, _)
InsertSorted(w, sorted) ==
    IF sorted = <<>> THEN <<w>>
    ELSE IF LexLess(w, Head(sorted)) THEN <<w>> \o sorted
    ELSE <<Head(sorted)>> \o InsertSorted(w, Tail(sorted))

\* words.sort()
RECURSIVE Sort(_)
Sort(ws) == IF ws = <<>> THEN <<>> ELSE InsertSorted(Head(ws), Sort(Tail(ws)))

\* words.includes(word)
Includes(ws, w) == \E i \in 1..Len(ws) : ws[i] = w

\* arr.indexOf(w), 0-based, -1 when absent
RECURSIVE IndexOfFrom(_, _, _)
IndexOfFrom(arr, w, i) ==
    IF i > Len(arr) THEN -1
    ELSE IF arr[i] = w THEN i - 1
    ELSE IndexOfFrom(arr, w, i + 1)

IndexOf(arr, w) == IndexOfFrom(arr, w, 1)

\* arr.slice(from), from 0-based
Slice(arr, from) == SubSeq(arr, from + 1, Len(arr))

\* Math.round(h / DayLength) for an integer h >= 0: halves round up
RoundDiv(h, d) == (2 * h + d) \div (2 * d)

(* ---------------- words.txt ---------------- *)
\* the list addWordToList reads out of the file
ReadWords(content) ==
    LET ls == Split(Trim(content))
    IN  [i \in 1..Len(ls) |-> Trim(ls[i])]

AddWordToListNoSort(content, word) ==
    LET words == ReadWords(content)
        w     == ToUpperCase(Trim(word))
    IN  IF Includes(words, w) THEN content
        ELSE Join(Append(words, w)) \o NL

AddWordToListNoUpper(content, word) ==
    LET words == ReadWords(content)
        w     == Trim(word)
    IN  IF Includes(words, w) THEN content
        ELSE Join(Sort(Append(words, w))) \o NL

AddWordToListReplace(content, word) ==
    LET w == ToUpperCase(Trim(word))
    IN  IF Includes(ReadWords(content), w) THEN content
        ELSE w \o NL

\* addWordToList: the new content of words.txt
addWordToList(content, word) ==
    LET words == ReadWords(content)
        w     == ToUpperCase(Trim(word))
    IN  IF Includes(words, w) THEN content
        ELSE Join(Sort(Append(words, w))) \o NL

(* ---------------- HTTP ---------------- *)
\* the value fetchNewWord returns, and main() tests, for "no word"
Null == <<0>>

\* A response is the chain of hops a URL leads through (the status of each
\* request, 0 for a transport error or a timeout) and the body of the last.
Redirect(st) == st >= 300 /\ st < 400

RECURSIVE httpsGetFrom(_, _, _)
httpsGetFrom(hops, body, depth) ==
    IF depth > MaxRedirectDepth THEN [ok |-> FALSE, data |-> Null]
    ELSE IF Head(hops) = 0 THEN [ok |-> FALSE, data |-> Null]
    ELSE IF Redirect(Head(hops)) /\ Len(hops) > 1
         THEN httpsGetFrom(Tail(hops), body, depth + 1)
    ELSE IF Head(hops) >= ServerErrorStatus THEN [ok |-> FALSE, data |-> Null]
    ELSE [ok |-> TRUE, data |-> body]

\* httpsGet(url): resolves with the body or rejects
httpsGet(resp) == httpsGetFrom(resp.hops, resp.body, 0)

(* ---------------- the NYT bundle ---------------- *)
\* The body of a JS file is what the answer-array regex finds in it: whether
\* it matches, and the array JSON.parse gives.
\* The loop of fetchNewWord over jsUrls: the raw answer, or Null.
RECURSIVE FindAnswer(_, _)
FindAnswer(jsResps, puzzleNum) ==
    IF jsResps = <<>> THEN Null
    ELSE LET got == httpsGet(Head(jsResps))
         IN  IF ~got.ok THEN FindAnswer(Tail(jsResps), puzzleNum)
             ELSE IF ~got.data.match THEN FindAnswer(Tail(jsResps), puzzleNum)
             ELSE LET arr      == got.data.arr
                      cigarIdx == IndexOf(arr, cigar)
                      answers  == Slice(arr, cigarIdx)
                  IN  IF puzzleNum >= Len(answers) THEN Null
                      ELSE IF puzzleNum < 0
                           THEN FindAnswer(Tail(jsResps), puzzleNum)
                      ELSE answers[puzzleNum + 1]

\* fetchNewWord(puzzleNum): the page request is outside the try block, so a
\* rejected page request rejects fetchNewWord itself
fetchNewWord(pageResp, puzzleNum) ==
    LET page == httpsGet(pageResp)
    IN  IF ~page.ok THEN [threw |-> TRUE, raw |-> Null]
        ELSE [threw |-> FALSE, raw |-> FindAnswer(page.data, puzzleNum)]

\* if (newWord): null and '' are falsy
Truthy(w) == w # Null /\ w # <<>>

(* ---------------- inputs ---------------- *)
\* the published answer sequence, answers[0] = cigar
Answers == <<cigar, house, crane, trace, apple, mango>>

JsBodies ==
    { [match |-> FALSE, arr |-> <<>>],
      [match |-> TRUE,  arr |-> <<aalii>> \o Answers],
      [match |-> TRUE,  arr |-> <<cigar>>] }

JsResponses ==
    { [hops |-> <<0>>,   body |-> [match |-> FALSE, arr |-> <<>>]],
      [hops |-> <<503>>, body |-> [match |-> TRUE, arr |-> Answers]] }
    \cup { [hops |-> <<200>>, body |-> b] : b \in JsBodies }

RECURSIVE SeqsUpTo(_, _)
SeqsUpTo(S, n) ==
    IF n = 0 THEN {<<>>}
    ELSE LET shorter == SeqsUpTo(S, n - 1)
         IN  shorter \cup {Append(q, x) : q \in shorter, x \in S}

PageBodies == SeqsUpTo(JsResponses, MaxBundles)

PageHops ==
    { <<404>>, <<503>>, <<0>>, <<301, 0>>,
      <<301, 302, 301, 302, 301, 200>>,
      <<301, 302, 301, 302, 301, 302, 200>> }

\* a plain 200 with every list of JS files; the other chains of hops with a
\* page that names one JS file holding the array
PageResponses ==
    [hops : {<<200>>}, body : PageBodies]
        \cup [hops : PageHops,
              body : {<<[hops |-> <<200>>, body |-> [match |-> TRUE, arr |-> Answers]]>>}]

\* hours between the start of one run and the start of the next
Spacings == {0, 24, 25}

\* 2021-06-19 09:00Z, 10:00Z (the scheduled hour) and 22:00Z
StartTimes == {EPOCH + 9, EPOCH + 10, EPOCH + 22}

NoMeta == [wordle_date |-> 0, ran_at |-> 0]

\* words.txt, prior.txt, current.txt as the repository may hold them
StartFiles ==
    { [words |-> APPLE \o NL \o MANGO \o NL, prior |-> CRANE, current |-> TRACE],
      [words |-> APPLE \o NL \o MANGO \o NL, prior |-> crane \o NL, current |-> SP \o trace \o NL],
      [words |-> APPLE \o NL \o CRANE \o NL, prior |-> CRANE \o NL, current |-> HOUSE \o NL],
      [words |-> CRANE \o NL, prior |-> <<>>, current |-> <<>>],
      [words |-> MANGO \o NL, prior |-> NL, current |-> CRANE \o NL],
      [words |-> APPLE \o NL \o HOUSE \o NL \o TRACE \o NL, prior |-> HOUSE, current |-> HOUSE] }

(* ---------------- state ---------------- *)
VARIABLES
    wordsTxt,        \* content of words.txt in REPO_DIR
    priorTxt,        \* content of prior.txt
    currentTxt,      \* content of current.txt
    metaJson,        \* content of meta.json: wordle_date and ran_at
    head,            \* the four files as of the last local commit
    remote,          \* the four files as of origin/main
    repoExists,      \* fs.existsSync(REPO_DIR)
    now,             \* Date.now() of the running process, in hours
    runs,            \* number of processes started so far
    pc,              \* position of the running process in main()
    priorWord,       \* const priorWord
    currentWord,     \* const currentWord
    wordleDate,      \* const wordleDate
    daysSinceEpoch,  \* const daysSinceEpoch
    newWord,         \* const newWord
    answer,          \* answers[puzzleNum] before toUpperCase, or Null
    fetched,         \* how step 7 ended: "no", "word", "null", "threw"
    committed,       \* how git commit ended: "no", "ok", "nothing"
    pushRan,         \* whether git push was executed by this process
    exitCode,        \* -1 while running, then the exit status
    pre,             \* the four files when this process started its work
    prevRun,         \* start time and written wordle_date of the previous process
    onceTxt          \* words.txt after the first of two archivals of one word

vars == <<wordsTxt, priorTxt, currentTxt, metaJson, head, remote, repoExists,
          now, runs, pc, priorWord, currentWord, wordleDate, daysSinceEpoch,
          newWord, answer, fetched, committed, pushRan, exitCode, pre, prevRun, onceTxt>>

files == <<wordsTxt, priorTxt, currentTxt, metaJson>>
gitVars == <<head, remote, repoExists>>
locals == <<priorWord, currentWord, wordleDate, daysSinceEpoch, newWord, answer>>

Files == [words |-> wordsTxt, prior |-> priorTxt, current |-> currentTxt,
          meta |-> metaJson]

NoRun == [started |-> FALSE, start |-> 0, wroteMeta |-> FALSE, date |-> 0]

\* utcPlus14.toISOString().split('T')[0], as a day number
WordleDateWrongDay(t) == (t + UtcPlus14Offset) \div (2 * DayLength)

WordleDate(t) == (t + UtcPlus14Offset) \div DayLength

\* Math.round((utcPlus14 - EPOCH) / (24 * 60 * 60 * 1000))
PuzzleNumber(t) == RoundDiv(t + UtcPlus14Offset - EPOCH, DayLength)

Init ==
    /\ \E f \in StartFiles :
          /\ wordsTxt = f.words
          /\ priorTxt = f.prior
          /\ currentTxt = f.current
    /\ metaJson = NoMeta
    /\ head = Files
    /\ remote = Files
    /\ repoExists \in BOOLEAN
    /\ now \in StartTimes
    /\ runs = 1
    /\ pc = "start"
    /\ priorWord = <<>>
    /\ currentWord = <<>>
    /\ wordleDate = 0
    /\ daysSinceEpoch = 0
    /\ newWord = Null
    /\ answer = Null
    /\ fetched = "no"
    /\ committed = "no"
    /\ pushRan = FALSE
    /\ exitCode = -1
    /\ pre = Files
    /\ prevRun = NoRun
    /\ onceTxt = <<>>

\* main().catch: log FATAL and process.exit(1)
Fatal ==
    /\ pc' = "fatal"
    /\ exitCode' = 1

(* ---------------- step 1: gitSetup ---------------- *)
\* REPO_DIR is missing: gh repo clone gives the files of origin/main
GitClone ==
    /\ pc = "start"
    /\ ~repoExists
    /\ repoExists' = TRUE
    /\ wordsTxt' = remote.words
    /\ priorTxt' = remote.prior
    /\ currentTxt' = remote.current
    /\ metaJson' = remote.meta
    /\ head' = remote
    /\ pre' = remote
    /\ pc' = "read"
    /\ UNCHANGED <<remote, now, runs, locals, fetched, committed, pushRan,
                   exitCode, prevRun, onceTxt>>

\* git pull --rebase origin main: the job is the only writer of origin/main,
\* so a pull that succeeds brings nothing new
GitPull ==
    /\ pc = "start"
    /\ repoExists
    /\ pre' = Files
    /\ pc' = "read"
    /\ UNCHANGED <<files, gitVars, now, runs, locals, fetched, committed,
                   pushRan, exitCode, prevRun, onceTxt>>

\* clone, pull, gh auth token or git config throws
GitSetupFails ==
    /\ pc = "start"
    /\ Fatal
    /\ UNCHANGED <<files, gitVars, now, runs, locals, fetched, committed,
                   pushRan, pre, prevRun, onceTxt>>

(* ---------------- step 2: read state ---------------- *)
ReadState ==
    /\ pc = "read"
    /\ priorWord' = ToUpperCase(Trim(priorTxt))
    /\ currentWord' = ToUpperCase(Trim(currentTxt))
    /\ pc' = "add"
    /\ UNCHANGED <<files, gitVars, now, runs, wordleDate, daysSinceEpoch,
                   newWord, answer, fetched, committed, pushRan, exitCode,
                   pre, prevRun, onceTxt>>

(* ---------------- step 3: inject prior into words.txt ---------------- *)
AddPrior ==
    /\ pc = "add"
    /\ wordsTxt' = addWordToList(wordsTxt, priorWord)
    /\ pc' = "rotate"
    /\ UNCHANGED <<priorTxt, currentTxt, metaJson, gitVars, now, runs, locals,
                   fetched, committed, pushRan, exitCode, pre, prevRun, onceTxt>>

(* ---------------- step 4: rotate current into prior ---------------- *)
Rotate ==
    /\ pc = "rotate"
    /\ priorTxt' = currentWord
    /\ pc' = "date"
    /\ UNCHANGED <<wordsTxt, currentTxt, metaJson, gitVars, now, runs, locals,
                   fetched, committed, pushRan, exitCode, pre, prevRun, onceTxt>>

(* ---------------- steps 5 and 6: wordle_date and puzzle number ---------- *)
ComputeDate ==
    /\ pc = "date"
    /\ wordleDate' = WordleDate(now)
    /\ daysSinceEpoch' = PuzzleNumber(now)
    /\ pc' = "fetch"
    /\ UNCHANGED <<files, gitVars, now, runs, priorWord, currentWord, newWord,
                   answer, fetched, committed, pushRan, exitCode, pre, prevRun, onceTxt>>

(* ---------------- step 7: fetch the new word ---------------- *)
\* fetchNewWord returns a word or null; current.txt is written for a word
FetchReturns ==
    /\ pc = "fetch"
    /\ \E resp \in PageResponses :
          LET r == fetchNewWord(resp, daysSinceEpoch)
              w == IF r.raw = Null THEN Null ELSE ToUpperCase(r.raw)
          IN  /\ ~r.threw
              /\ answer' = r.raw
              /\ newWord' = w
              /\ currentTxt' = IF Truthy(w) THEN w ELSE currentTxt
              /\ fetched' = IF Truthy(w) THEN "word" ELSE "null"
    /\ pc' = "meta"
    /\ UNCHANGED <<wordsTxt, priorTxt, metaJson, gitVars, now, runs, priorWord,
                   currentWord, wordleDate, daysSinceEpoch, committed, pushRan,
                   exitCode, pre, prevRun, onceTxt>>

\* fetchNewWord rejects: main() rejects and the process exits with 1
FetchThrows ==
    /\ pc = "fetch"
    /\ \E resp \in PageResponses : fetchNewWord(resp, daysSinceEpoch).threw
    /\ fetched' = "threw"
    /\ Fatal
    /\ UNCHANGED <<files, gitVars, now, runs, locals, committed, pushRan,
                   pre, prevRun, onceTxt>>

(* ---------------- step 8: meta.json ---------------- *)
WriteMeta ==
    /\ pc = "meta"
    /\ metaJson' = [wordle_date |-> wordleDate, ran_at |-> now]
    /\ pc' = "commit"
    /\ UNCHANGED <<wordsTxt, priorTxt, currentTxt, gitVars, now, runs, locals,
                   fetched, committed, pushRan, exitCode, pre, prevRun, onceTxt>>

(* ---------------- step 9: commit and push ---------------- *)
\* git add + git commit with staged changes
Commit ==
    /\ pc = "commit"
    /\ Files # head
    /\ head' = Files
    /\ committed' = "ok"
    /\ pc' = "push"
    /\ UNCHANGED <<files, remote, repoExists, now, runs, locals, fetched,
                   pushRan, exitCode, pre, prevRun, onceTxt>>

NothingToCommitSkipsPush ==
    /\ pc = "commit"
    /\ Files = head
    /\ committed' = "nothing"
    /\ pc' = "done"
    /\ exitCode' = 0
    /\ UNCHANGED <<files, gitVars, now, runs, locals, fetched, pushRan,
                   pre, prevRun, onceTxt>>

\* git commit exits non-zero with nothing staged; the catch logs and goes on
NothingToCommit ==
    /\ pc = "commit"
    /\ Files = head
    /\ committed' = "nothing"
    /\ pc' = "push"
    /\ UNCHANGED <<files, gitVars, now, runs, locals, fetched, pushRan,
                   exitCode, pre, prevRun, onceTxt>>

\* git push origin main succeeds; main() resolves, exit status 0
Push ==
    /\ pc = "push"
    /\ remote' = head
    /\ pushRan' = TRUE
    /\ pc' = "done"
    /\ exitCode' = 0
    /\ UNCHANGED <<files, head, repoExists, now, runs, locals, fetched,
                   committed, pre, prevRun, onceTxt>>

PushFails ==
    /\ pc = "push"
    /\ pushRan' = TRUE
    /\ Fatal
    /\ UNCHANGED <<files, gitVars, now, runs, locals, fetched, committed,
                   pre, prevRun, onceTxt>>

(* ---------------- the scheduler starts the next process ---------------- *)
StartRun ==
    /\ pc \in {"done", "fatal"}
    /\ runs < MaxRuns
    /\ runs' = runs + 1
    /\ \E d \in Spacings : now' = now + d
    /\ prevRun' = [started |-> TRUE, start |-> now,
                   wroteMeta |-> (fetched \in {"word", "null"}),
                   date |-> metaJson.wordle_date]
    /\ pre' = Files
    /\ pc' = "start"
    /\ priorWord' = <<>>
    /\ currentWord' = <<>>
    /\ wordleDate' = 0
    /\ daysSinceEpoch' = 0
    /\ newWord' = Null
    /\ answer' = Null
    /\ fetched' = "no"
    /\ committed' = "no"
    /\ pushRan' = FALSE
    /\ exitCode' = -1
    /\ UNCHANGED <<files, gitVars, onceTxt>>

Next ==
    \/ GitClone
    \/ GitPull
    \/ GitSetupFails
    \/ ReadState
    \/ AddPrior
    \/ Rotate
    \/ ComputeDate
    \/ FetchReturns
    \/ FetchThrows
    \/ WriteMeta
    \/ Commit
    \/ NothingToCommit
    \/ Push
    \/ PushFails
    \/ StartRun

Spec == Init /\ [][Next]_vars

(* ---------------- addWordToList on its own ---------------- *)
\* words.txt contents handed to addWordToList, in and out of format
AddArchives ==
    { <<>>,
      CRANE \o NL,
      crane \o NL,
      APPLE \o NL \o CRANE \o NL,
      apple \o NL \o crane \o NL \o mango \o NL,
      APPLE \o NL \o SP \o CRANE \o SP \o NL \o MANGO \o NL,
      MANGO \o NL \o APPLE \o NL,
      NL \o APPLE \o NL \o MANGO \o NL }

\* the word argument, before addWordToList trims and uppercases it
AddWords ==
    { <<>>, CRANE, crane, SP \o crane \o NL, APPLE, HOUSE, house, mango \o NL }

InitAdd ==
    /\ wordsTxt \in AddArchives
    /\ priorWord \in AddWords
    /\ priorTxt = <<>>
    /\ currentTxt = <<>>
    /\ metaJson = NoMeta
    /\ head = Files
    /\ remote = Files
    /\ repoExists = TRUE
    /\ now = EPOCH
    /\ runs = 1
    /\ pc = "add"
    /\ currentWord = <<>>
    /\ wordleDate = 0
    /\ daysSinceEpoch = 0
    /\ newWord = Null
    /\ answer = Null
    /\ fetched = "no"
    /\ committed = "no"
    /\ pushRan = FALSE
    /\ exitCode = -1
    /\ pre = Files
    /\ prevRun = NoRun
    /\ onceTxt = <<>>

\* addWordToList(word)
AddWord ==
    /\ pc = "add"
    /\ wordsTxt' = addWordToList(wordsTxt, priorWord)
    /\ onceTxt' = wordsTxt'
    /\ pc' = "added"
    /\ UNCHANGED <<priorTxt, currentTxt, metaJson, gitVars, now, runs, locals,
                   fetched, committed, pushRan, exitCode, pre, prevRun>>

\* addWordToList(word) once more with the same word
AddWordAgain ==
    /\ pc = "added"
    /\ wordsTxt' = addWordToList(wordsTxt, priorWord)
    /\ pc' = "addedTwice"
    /\ UNCHANGED <<priorTxt, currentTxt, metaJson, gitVars, now, runs, locals,
                   fetched, committed, pushRan, exitCode, pre, prevRun, onceTxt>>

NextAdd == AddWord \/ AddWordAgain

SpecAdd == InitAdd /\ [][NextAdd]_vars

(* ======================= properties ======================= *)
\* the process has ended
Terminal == pc \in {"done", "fatal"}

\* main() has passed step 3, step 8
PastAdd == pc \in {"rotate", "date", "fetch", "meta", "commit", "push", "done"}
               \/ (pc = "fatal" /\ (fetched = "threw" \/ pushRan))
PastMeta == pc \in {"commit", "push", "done"} \/ (pc = "fatal" /\ pushRan)

\* the lines of a file as a reader sees them: the pieces between newlines,
\* without the empty piece after a final newline
FileLines(content) ==
    LET ls == Split(content)
    IN  IF ls[Len(ls)] = <<>> THEN SubSeq(ls, 1, Len(ls) - 1) ELSE ls

LineSet(content) == {FileLines(content)[i] : i \in 1..Len(FileLines(content))}

IsWord(l) == l # <<>>

\* the archive: the words words.txt holds, in file order (a blank line is
\* not a word)
ArchiveWords(content) == SelectSeq(FileLines(content), IsWord)

WordSet(ws) == {ws[i] : i \in 1..Len(ws)}

StrictlySorted(ls) == \A i \in 1..(Len(ls) - 1) : LexLess(ls[i], ls[i + 1])

SameIgnoringCase(a, b) ==
    /\ Len(a) = Len(b)
    /\ \A i \in 1..Len(a) : UpperChar(a[i]) = UpperChar(b[i])

\* the word a slot file holds: its content without surrounding white space,
\* in capitals
SlotWord(content) ==
    LET t == Trim(content) IN [i \in 1..Len(t) |-> UpperChar(t[i])]

RetrievalFailed == fetched \in {"null", "threw"}

\* C1: a run whose retrieval step failed, and whose push did not fail, has
\* rotated current into prior, archived the old prior word, written
\* meta.json, pushed the result and exited with status zero.
C1_FetchFailureNonFatal ==
    (Terminal /\ RetrievalFailed /\ ~(pc = "fatal" /\ pushRan))
        => /\ exitCode = 0
           /\ priorTxt = SlotWord(pre.current)
           /\ SlotWord(pre.prior) # <<>> => SlotWord(pre.prior) \in LineSet(wordsTxt)
           /\ metaJson = [wordle_date |-> WordleDate(now), ran_at |-> now]
           /\ pushRan
           /\ remote = Files

\* C2: after a run whose retrieval step failed, current.txt is what it was
\* before the run, prior.txt holds the pre-run current word, the pre-run
\* prior word is in words.txt, and meta.json carries the target puzzle date.
C2_FetchFailureKeepsCurrent ==
    (Terminal /\ RetrievalFailed)
        => /\ currentTxt = pre.current
           /\ priorTxt = SlotWord(pre.current)
           /\ SlotWord(pre.prior) # <<>> => SlotWord(pre.prior) \in LineSet(wordsTxt)
           /\ metaJson = [wordle_date |-> WordleDate(now), ran_at |-> now]

C4_RotationCorrect ==
    (Terminal /\ fetched = "word")
        => LET P == SlotWord(pre.prior)
               C == SlotWord(pre.current)
               A == ArchiveWords(pre.words)
               B == ArchiveWords(wordsTxt)
           IN  /\ IF Includes(A, P)
                  THEN wordsTxt = pre.words
                  ELSE /\ WordSet(B) = WordSet(A) \cup ({P} \ {<<>>})
                       /\ Len(B) = Cardinality(WordSet(B))
                       /\ StrictlySorted(B)
                       /\ StrictlySorted(FileLines(wordsTxt))
                       /\ wordsTxt[Len(wordsTxt)] = 10
               /\ priorTxt = C
               /\ Len(currentTxt) = Len(answer)
               /\ \A i \in 1..Len(answer) : currentTxt[i] = UpperChar(answer[i])

\* the scenario prior = CRANE, current = TRACE, archive = [APPLE, MANGO],
\* fetch = house has ended as the claim says
C4_Witness ==
    /\ pc = "done"
    /\ pre.words = APPLE \o NL \o MANGO \o NL
    /\ pre.prior = CRANE
    /\ pre.current = TRACE
    /\ answer = house
    /\ wordsTxt = APPLE \o NL \o CRANE \o NL \o MANGO \o NL
    /\ priorTxt = TRACE
    /\ currentTxt = HOUSE

MetaWritten == PastMeta /\ fetched \in {"word", "null"}

\* the previous process wrote meta.json and this one started at least 24
\* hours after it
SpacedRuns ==
    /\ MetaWritten
    /\ prevRun.started
    /\ prevRun.wroteMeta
    /\ now - prevRun.start >= DayLength

\* C6 as stated: with runs at least 24 hours apart, wordle_date is the
\* previous run's wordle_date plus exactly one day.
C6_ExactlyOneDay ==
    SpacedRuns => metaJson.wordle_date = prevRun.date + 1

\* C6 amended: with runs at least 24 hours apart, wordle_date is strictly
\* greater than the previous run's; it is greater by exactly one day when
\* the runs are exactly 24 hours apart.
C6_DateAdvances ==
    SpacedRuns
        => /\ metaJson.wordle_date > prevRun.date
           /\ (now - prevRun.start = DayLength
                 => metaJson.wordle_date = prevRun.date + 1)

\* two runs exactly 24 hours apart have both written meta.json
C6_Witness ==
    /\ SpacedRuns
    /\ now - prevRun.start = DayLength
    /\ pc = "done"

\* C7 as stated: a run that found nothing to commit does not execute git push.
C7_PushSkipped ==
    (Terminal /\ committed = "nothing") => ~pushRan

\* C7 amended: a run that found nothing to commit goes on without error and
\* executes git push all the same; every run that reaches the persist step
\* executes git push, whether or not the commit contained changes.
C7_PushAlwaysRuns ==
    /\ (Terminal /\ committed \in {"ok", "nothing"}) => pushRan
    /\ (pc = "done" /\ committed = "nothing")
          => (exitCode = 0 /\ remote = Files /\ head = Files)

\* a run has found nothing to commit and has ended with status zero
C7_Witness ==
    /\ pc = "done"
    /\ committed = "nothing"
    /\ pushRan
    /\ exitCode = 0

\* C8: no step removes a word from words.txt.
C8_AppendOnly ==
    [][WordSet(ArchiveWords(wordsTxt)) \subseteq WordSet(ArchiveWords(wordsTxt'))]_vars

\* a second or later run has inserted a word and the words that were there
\* before the run are all still there
C8_Witness ==
    /\ Terminal
    /\ runs > 1
    /\ Len(ArchiveWords(pre.words)) >= 3
    /\ Len(ArchiveWords(wordsTxt)) > Len(ArchiveWords(pre.words))

\* C9: when prior.txt is empty or white space at the start of a run, the run
\* leaves words.txt unchanged.
C9_BlankPriorNotArchived ==
    (PastAdd /\ Trim(pre.prior) = <<>>) => wordsTxt = pre.words

\* C10: the puzzle index given to fetchNewWord is the number of days from
\* the epoch date to the wordle_date of the same run.
C10_IndexMatchesDate ==
    pc \in {"fetch", "meta", "commit", "push", "done"}
        => daysSinceEpoch = wordleDate - (EPOCH \div DayLength)
====
